---- MODULE Spec2Model ----
(***************************************************************************)
(* Model of the BTC/altcoin rebalancer: the paginated CoinGecko fetch with *)
(* its retry loop (src/app.py and src/fetch_coingecko.py), the record      *)
(* normalisation that follows it, and the allocation calculation of        *)
(* src/app.py.                                                             *)
(***************************************************************************)
EXTENDS Integers, Sequences, FiniteSets, TLC

VARIABLES
    \* ---- fetch_market_data (both variants) and its caller
    variant,            \* "app" (src/app.py) or "cg" (src/fetch_coingecko.py)
    pages,              \* argument pages
    retries,            \* argument retries
    pc,                 \* control point of the fetch and of its caller
    page,               \* loop variable of `for page in range(1, pages + 1)`
    attempt,            \* loop variable of `while attempt < retries`
    all_coins,          \* raw records collected so far
    reqLog,             \* every HTTP request issued, in order, with its outcome
    result,             \* what fetch_market_data hands to its caller
    processed_coins,    \* app.py: records emitted by the normalisation
    skipped_coins_log,  \* app.py: one entry per skipped record
    messages,           \* st.warning / st.error / st.caption reports, in order
    fileWritten,        \* fetch_coingecko.py main: the JSON file was written
    \* ---- allocation calculation of app.py
    cpc,                \* control point of the calculation branch
    market_data,        \* list handed to pd.DataFrame
    excluded_tokens_str,\* text area content, as its comma separated pieces
    top_n_altcoins,     \* number input N
    total_portfolio_usd,
    btc_target_weight_percent,
    alt_target_weight_percent,
    df,                 \* cleaned and sorted table
    excluded_tokens,    \* parsed exclusion set
    df_filtered,
    altcoin_basket,
    target_btc_usd,
    target_altcoin_basket_usd,
    total_altcoin_basket_market_cap,
    weights,            \* column 'Weight (%)', one rational per basket row
    targets,            \* column 'Target Allocation (USD)'
    display_df,         \* rows of the final table, with their Basket Rank
    summary             \* the two target metrics shown above the table

fetchVars == <<variant, pages, retries, pc, page, attempt, all_coins, reqLog,
               result, processed_coins, skipped_coins_log, fileWritten>>

calcVars == <<cpc, market_data, excluded_tokens_str, top_n_altcoins,
              total_portfolio_usd, btc_target_weight_percent,
              alt_target_weight_percent, df, excluded_tokens, df_filtered,
              altcoin_basket, target_btc_usd, target_altcoin_basket_usd,
              total_altcoin_basket_market_cap, weights, targets, display_df,
              summary>>

vars == <<fetchVars, messages, calcVars>>

----------------------------------------------------------------------------
(* Bounds of the model.                                                    *)

MaxPages == 3
MaxRetries == 2
MaxRows == 3        \* rows of market_data in the calculation
MaxTopN == 3        \* largest N of the number input
Resolution == 2     \* JSON numbers are multiples of 1/Resolution

----------------------------------------------------------------------------
(* JSON values of a raw record.  A key of a Python dict is absent, or maps *)
(* to null (None), to a string or to a number.                             *)

Absent == [tag |-> "absent", s |-> "", n |-> 0]
Null == [tag |-> "null", s |-> "", n |-> 0]
Str(x) == [tag |-> "str", s |-> x, n |-> 0]
\* Num(x) is the number x / Resolution, Whole(x) the integer x
Num(x) == [tag |-> "num", s |-> "", n |-> x]
Whole(x) == Num(x * Resolution)

required_keys ==
    <<"id", "symbol", "name", "market_cap", "market_cap_rank", "current_price">>

selected_keys ==
    <<"id", "symbol", "name", "market_cap_rank", "market_cap", "current_price">>

SeqRange(s) == {s[i] : i \in 1..Len(s)}

\* A raw record of the API: the six keys and one the program never reads.
RawCoin(id, symbol, name, mcap, rank, price, volume) ==
    [k \in SeqRange(required_keys) \cup {"total_volume"} |->
        CASE k = "id" -> id
          [] k = "symbol" -> symbol
          [] k = "name" -> name
          [] k = "market_cap" -> mcap
          [] k = "market_cap_rank" -> rank
          [] k = "current_price" -> price
          [] OTHER -> volume]

rawBtc == RawCoin(Str("bitcoin"), Str("btc"), Str("Bitcoin"), Whole(9), Whole(1), Whole(60), Whole(5))
rawEth == RawCoin(Str("ethereum"), Str("eth"), Str("Ethereum"), Whole(3), Whole(2), Whole(3), Whole(4))
rawNullRank == RawCoin(Str("ghost"), Str("gho"), Str("Ghost"), Whole(1), Null, Whole(1), Absent)
rawNoRank == RawCoin(Absent, Str("nrk"), Null, Whole(2), Absent, Whole(1), Whole(1))
rawNoMcap == RawCoin(Str("nomcap"), Str("nmc"), Str("NoMcap"), Null, Whole(7), Absent, Whole(1))

\* Bodies a successful response may carry (the decoded JSON array).
PageBodies ==
    { <<>>,
      <<rawEth>>,
      <<rawBtc, rawEth>>,
      <<rawNullRank, rawEth>>,
      <<rawNoRank, rawNoMcap>>,
      <<rawEth, rawNoMcap, rawBtc>> }

----------------------------------------------------------------------------
(* Pure helpers of fetch_market_data.                                      *)

\* `key not in coin or coin.get(key) is None`
MissingOrNull(coin, key) == coin[key].tag \in {"absent", "null"}

\* coin.get(key): an absent key reads as None
Get(coin, key) == IF coin[key].tag = "absent" THEN Null ELSE coin[key]

\* coin.get(key, default)
GetDefault(coin, key, default) ==
    IF coin[key].tag = "absent" THEN default ELSE coin[key]

\* (variant of Extend: the page's records are put in front of the list)
ExtendInFront(coins, data) == data \o coins

\* all_coins.extend(data)
Extend(coins, data) == coins \o data

\* `if data:` a non-empty decoded array is truthy
Truthy(data) == Len(data) > 0

\* (variant of MayRetry: one attempt too many)
MayRetryOnceMore(a, r) == a <= r

\* `while attempt < retries`, `if attempt < retries` after the increment
MayRetry(a, r) == a < r

\* (variant of ExhaustedResult: the pages fetched so far are returned)
ExhaustedPartial(v, coins) == [kind |-> "list", coins |-> coins]

\* outcome of fetch_market_data once a page has exhausted its retries:
\* app.py `return None`, fetch_coingecko.py `raise`
ExhaustedResult(v, coins) ==
    IF v = "app" THEN [kind |-> "none", coins |-> <<>>]
    ELSE [kind |-> "raise", coins |-> <<>>]

\* One pass of `for coin in all_coins` (app.py): the record is skipped for a
\* missing/null rank, emitted when no required key is missing, else skipped.
missing_keys(coin) ==
    {key \in SeqRange(required_keys) : MissingOrNull(coin, key)}

\* (variant of NormalizeStep: a record missing another field is not logged)
NormalizeStepSilent(acc, coin) ==
    IF MissingOrNull(coin, "market_cap_rank")
    THEN [acc EXCEPT !.skipped = Append(@,
            [id |-> GetDefault(coin, "id", Str("Unknown ID")),
             reason |-> "rank", missing |-> {"market_cap_rank"}])]
    ELSE IF missing_keys(coin) = {}
    THEN [acc EXCEPT !.processed = Append(@,
            [key \in SeqRange(required_keys) |-> coin[key]])]
    ELSE acc

NormalizeStep(acc, coin) ==
    IF MissingOrNull(coin, "market_cap_rank")
    THEN [acc EXCEPT !.skipped = Append(@,
            [id |-> GetDefault(coin, "id", Str("Unknown ID")),
             reason |-> "rank", missing |-> {"market_cap_rank"}])]
    ELSE IF missing_keys(coin) = {}
    THEN [acc EXCEPT !.processed = Append(@,
            [key \in SeqRange(required_keys) |-> coin[key]])]
    ELSE [acc EXCEPT !.skipped = Append(@,
            [id |-> GetDefault(coin, "id", Str("Unknown ID")),
             reason |-> "fields", missing |-> missing_keys(coin)])]

RECURSIVE NormalizeFrom(_, _, _)
NormalizeFrom(coins, i, acc) ==
    IF i > Len(coins) THEN acc
    ELSE NormalizeFrom(coins, i + 1, NormalizeStep(acc, coins[i]))

Normalize(coins) ==
    NormalizeFrom(coins, 1, [processed |-> <<>>, skipped |-> <<>>])

\* fetch_coingecko.py: `{k: coin.get(k) for k in selected_keys}` for every coin
SelectKeys(coins) ==
    [i \in 1..Len(coins) |->
        [k \in SeqRange(selected_keys) |-> Get(coins[i], k)]]

NoResult == [kind |-> "pending", coins |-> <<>>]
NoneResult == [kind |-> "none", coins |-> <<>>]
ListResult(coins) == [kind |-> "list", coins |-> coins]

\* st.* reports exist in app.py only
Report(v, msgs, new) == IF v = "app" THEN msgs \o new ELSE msgs

----------------------------------------------------------------------------
(* The calculation variables at rest (before the button's branch runs).    *)

CalcIdle ==
    /\ cpc = "idle"
    /\ market_data = <<>>
    /\ excluded_tokens_str = <<>>
    /\ top_n_altcoins = 0
    /\ total_portfolio_usd = 0
    /\ btc_target_weight_percent = 0
    /\ alt_target_weight_percent = 0
    /\ df = <<>>
    /\ excluded_tokens = {}
    /\ df_filtered = <<>>
    /\ altcoin_basket = <<>>
    /\ target_btc_usd = <<0, 1>>
    /\ target_altcoin_basket_usd = <<0, 1>>
    /\ total_altcoin_basket_market_cap = 0
    /\ weights = <<>>
    /\ targets = <<>>
    /\ display_df = <<>>
    /\ summary = <<>>

----------------------------------------------------------------------------
(* fetch_market_data: the page loop.                                       *)

Init ==
    /\ variant \in {"app", "cg"}
    /\ pages \in 1..MaxPages
    /\ retries \in 1..MaxRetries
    /\ pc = "fetching"
    /\ page = 1
    /\ attempt = 0
    /\ all_coins = <<>>
    /\ reqLog = <<>>
    /\ result = NoResult
    /\ processed_coins = <<>>
    /\ skipped_coins_log = <<>>
    /\ messages = <<>>
    /\ fileWritten = FALSE
    /\ CalcIdle

\* (variant of AfterBreak: the `break` is missing, the while loop goes on)
AfterBreakMissing == UNCHANGED <<page, attempt, pc>>

\* `break` leaves the while loop; the for loop goes on with the next page, and
\* the code after the loop runs once range(1, pages + 1) is used up.
AfterBreak ==
    /\ page' = page + 1
    /\ attempt' = 0
    /\ pc' = IF page + 1 > pages THEN "after_loop" ELSE "fetching"

\* requests.get raises, or raise_for_status raises: the except branch.
RequestFails ==
    /\ pc = "fetching"
    /\ MayRetry(attempt, retries)
    /\ reqLog' = Append(reqLog, [page |-> page, outcome |-> "fail", data |-> <<>>])
    /\ attempt' = attempt + 1
    /\ IF MayRetry(attempt + 1, retries)
       THEN /\ messages' = Report(variant, messages, <<"warn_api_error">>)
            /\ UNCHANGED <<pc, result>>
       ELSE /\ messages' = Report(variant, messages,
                                  <<"warn_api_error", "err_failed_after_retries">>)
            /\ result' = ExhaustedResult(variant, all_coins)
            /\ pc' = IF variant = "app" THEN "returned" ELSE "raised"
    /\ UNCHANGED <<variant, pages, retries, page, all_coins, processed_coins,
                   skipped_coins_log, fileWritten, calcVars>>

\* a successful response with a non-empty array
RequestData ==
    /\ pc = "fetching"
    /\ MayRetry(attempt, retries)
    /\ \E data \in PageBodies :
        /\ Truthy(data)
        /\ reqLog' = Append(reqLog, [page |-> page, outcome |-> "data", data |-> data])
        /\ all_coins' = Extend(all_coins, data)
    /\ AfterBreak
    /\ UNCHANGED <<variant, pages, retries, result, processed_coins,
                   skipped_coins_log, messages, fileWritten, calcVars>>

\* a successful response with an empty array
RequestEmpty ==
    /\ pc = "fetching"
    /\ MayRetry(attempt, retries)
    /\ \E data \in PageBodies :
        /\ ~Truthy(data)
        /\ reqLog' = Append(reqLog, [page |-> page, outcome |-> "empty", data |-> data])
    /\ messages' = IF page = 1
                   THEN Report(variant, messages, <<"warn_empty_page">>)
                   ELSE messages
    /\ AfterBreak
    /\ UNCHANGED <<variant, pages, retries, all_coins, result, processed_coins,
                   skipped_coins_log, fileWritten, calcVars>>

\* app.py after the loop: `if not all_coins` returns None, else the records
\* are normalised and the emitted ones returned.
AppAfterLoop ==
    /\ pc = "after_loop"
    /\ variant = "app"
    /\ IF ~Truthy(all_coins)
       THEN /\ messages' = messages \o <<"err_no_data">>
            /\ result' = NoneResult
            /\ UNCHANGED <<processed_coins, skipped_coins_log>>
       ELSE LET n == Normalize(all_coins) IN
            /\ processed_coins' = n.processed
            /\ skipped_coins_log' = n.skipped
            /\ messages' = IF Truthy(n.skipped)
                           THEN messages \o <<"expander_skipped">>
                           ELSE messages
            /\ result' = ListResult(n.processed)
    /\ pc' = "returned"
    /\ UNCHANGED <<variant, pages, retries, page, attempt, all_coins, reqLog,
                   fileWritten, calcVars>>

\* fetch_coingecko.py after the loop: the six keys of every collected record
CgAfterLoop ==
    /\ pc = "after_loop"
    /\ variant = "cg"
    /\ result' = ListResult(SelectKeys(all_coins))
    /\ pc' = "returned"
    /\ UNCHANGED <<variant, pages, retries, page, attempt, all_coins, reqLog,
                   processed_coins, skipped_coins_log, messages, fileWritten,
                   calcVars>>

\* app.py caller: `if market_data:` goes on to the calculation, else reports
\* that the data could not be fetched.
AppCaller ==
    /\ pc = "returned"
    /\ variant = "app"
    /\ IF result.kind = "list" /\ Truthy(result.coins)
       THEN /\ messages' = messages \o <<"success_fetched">>
            /\ pc' = "calculating"
       ELSE /\ messages' = messages \o <<"err_could_not_proceed">>
            /\ pc' = "fetch_failed"
    /\ UNCHANGED <<variant, pages, retries, page, attempt, all_coins, reqLog,
                   result, processed_coins, skipped_coins_log, fileWritten,
                   calcVars>>

\* fetch_coingecko.py main: the returned list is dumped to a file
CgMain ==
    /\ pc = "returned"
    /\ variant = "cg"
    /\ fileWritten' = TRUE
    /\ pc' = "main_done"
    /\ UNCHANGED <<variant, pages, retries, page, attempt, all_coins, reqLog,
                   result, processed_coins, skipped_coins_log, messages,
                   calcVars>>

\* fetch_coingecko.py main: the exception leaves main before any file is made
CgMainRaised ==
    /\ pc = "raised"
    /\ pc' = "main_aborted"
    /\ UNCHANGED <<variant, pages, retries, page, attempt, all_coins, reqLog,
                   result, processed_coins, skipped_coins_log, messages,
                   fileWritten, calcVars>>

Next ==
    \/ RequestFails
    \/ RequestData
    \/ RequestEmpty
    \/ AppAfterLoop
    \/ CgAfterLoop
    \/ AppCaller
    \/ CgMain
    \/ CgMainRaised

Spec == Init /\ [][Next]_vars

----------------------------------------------------------------------------
(* The allocation calculation of app.py: helpers.                          *)

\* Exact rationals <<numerator, denominator>> with denominator > 0 stand for
\* the floats of the calculation.
RECURSIVE GCD(_, _)
GCD(a, b) == IF b = 0 THEN a ELSE GCD(b, a % b)

Abs(x) == IF x < 0 THEN -x ELSE x

Reduce(r) ==
    LET g == GCD(Abs(r[1]), Abs(r[2]))
        sgn == IF r[2] < 0 THEN -1 ELSE 1
    IN  IF g = 0 THEN r ELSE <<sgn * (r[1] \div g), sgn * (r[2] \div g)>>

Rat(x) == <<x, 1>>
RMul(a, b) == Reduce(<<a[1] * b[1], a[2] * b[2]>>)
RDiv(a, b) == Reduce(<<a[1] * b[2], a[2] * b[1]>>)
RAdd(a, b) == Reduce(<<a[1] * b[2] + b[1] * a[2], a[2] * b[2]>>)
REq(a, b) == a[1] * b[2] = b[1] * a[2]

RECURSIVE RSum(_)
RSum(s) == IF s = <<>> THEN Rat(0) ELSE RAdd(s[1], RSum(Tail(s)))

\* int(x): truncation toward zero
Trunc(r) ==
    IF r[1] >= 0 THEN r[1] \div r[2] ELSE -((-r[1]) \div r[2])

\* str.lower(), str.upper() and str.strip() on the strings of the model
Lower(s) ==
    CASE s = "BTC" -> "btc"
      [] s = "Sol" -> "sol"
      [] s = "USDT" -> "usdt"
      [] s = " USDT " -> " usdt "
      [] OTHER -> s

Upper(s) ==
    CASE s = "btc" -> "BTC"
      [] s = "eth" -> "ETH"
      [] s = "Sol" -> "SOL"
      [] s = "sol" -> "SOL"
      [] s = "usdt" -> "USDT"
      [] s = "zro" -> "ZRO"
      [] s = "neg" -> "NEG"
      [] s = "bad" -> "BAD"
      [] OTHER -> s

Strip(s) ==
    CASE s = " USDT " -> "USDT"
      [] s = " usdt " -> "usdt"
      [] s = " " -> ""
      [] OTHER -> s

\* pd.to_numeric(errors='coerce'): a number stays, anything else becomes NaN
\* (the strings of the model are not numerals)
ToNumeric(v) ==
    IF v.tag = "num" THEN [nan |-> FALSE, n |-> v.n] ELSE [nan |-> TRUE, n |-> 0]

\* astype(int) on a float x / Resolution: truncation toward zero
AsTypeInt(x) ==
    IF x >= 0 THEN x \div Resolution ELSE -((-x) \div Resolution)

numeric_cols == <<"market_cap", "current_price", "market_cap_rank">>

\* pd.DataFrame(market_data), to_numeric on the numeric columns, dropna on
\* them and market_cap_rank as int.  A row keeps its index label.
Row(coin, label) ==
    [index |-> label,
     id |-> coin["id"].s,
     symbol |-> coin["symbol"].s,
     name |-> coin["name"].s,
     market_cap |-> ToNumeric(coin["market_cap"]).n,
     current_price |-> ToNumeric(coin["current_price"]).n,
     market_cap_rank |-> AsTypeInt(ToNumeric(coin["market_cap_rank"]).n)]

KeepsRow(coin) ==
    \A col \in SeqRange(numeric_cols) : ~ToNumeric(coin[col]).nan

RECURSIVE CleanFrom(_, _)
CleanFrom(data, i) ==
    IF i > Len(data) THEN <<>>
    ELSE IF KeepsRow(data[i])
         THEN <<Row(data[i], i - 1)>> \o CleanFrom(data, i + 1)
         ELSE CleanFrom(data, i + 1)

Clean(data) == CleanFrom(data, 1)

\* df.sort_values(by='market_cap_rank', ascending=True): the default sort
\* kind is quicksort, which is not stable, so rows of equal rank may come out
\* in any order.
RowOrders(n) ==
    {f \in [1..n -> 1..n] : \A i, j \in 1..n : i # j => f[i] # f[j]}

SortValues(rows) ==
    {[i \in 1..Len(rows) |-> rows[f[i]]] : f \in
        {g \in RowOrders(Len(rows)) :
            \A i \in 1..(Len(rows) - 1) :
                rows[g[i]].market_cap_rank <= rows[g[i + 1]].market_cap_rank}}

\* set(t.strip().lower() for t in s.split(',') if t.strip()), then add('btc')
ParseExcluded(pieces) ==
    {Lower(Strip(pieces[i])) : i \in {j \in 1..Len(pieces) : Strip(pieces[j]) # ""}}
        \cup {"btc"}

\* (variant of FilterExcluded: the symbol is compared without lower())
FilterExcludedCaseSensitive(rows, excluded) ==
    SelectSeq(rows, LAMBDA r : r.symbol \notin excluded)

\* df[~df['symbol'].str.lower().isin(excluded_tokens)]
FilterExcluded(rows, excluded) ==
    SelectSeq(rows, LAMBDA r : Lower(r.symbol) \notin excluded)

\* (variant of HeadRows: N = 0 is read as "no limit")
HeadRowsZeroIsAll(rows, n) ==
    IF n = 0 THEN rows ELSE SubSeq(rows, 1, IF n < Len(rows) THEN n ELSE Len(rows))

\* DataFrame.head(n) for n >= 0
HeadRows(rows, n) == SubSeq(rows, 1, IF n < Len(rows) THEN n ELSE Len(rows))

\* altcoin_basket['market_cap'].sum()
RECURSIVE SumMarketCap(_)
SumMarketCap(rows) ==
    IF rows = <<>> THEN 0 ELSE rows[1].market_cap + SumMarketCap(Tail(rows))

\* (variant of PositiveTotal: only a total of exactly zero is refused)
NonZeroTotal(total) == total # 0

\* `if total_altcoin_basket_market_cap > 0:`
PositiveTotal(total) == total > 0

\* (variant of TargetUsd: the percentage is taken of the sum of the shares)
TargetUsdOfShares(portfolio, percent) ==
    RMul(Rat(portfolio), RDiv(Rat(percent), Rat(100 + percent)))

\* total_portfolio_usd * (weight_percent / 100.0)
TargetUsd(portfolio, percent) ==
    RMul(Rat(portfolio), RDiv(Rat(percent), Rat(100)))

\* (variant of WeightPct: the share is left as a fraction)
WeightFraction(row, total) == RDiv(Rat(row.market_cap), Rat(total))

\* (altcoin_basket['market_cap'] / total) * 100
WeightPct(row, total) == RMul(RDiv(Rat(row.market_cap), Rat(total)), Rat(100))

\* (altcoin_basket['Weight (%)'] / 100.0) * target_altcoin_basket_usd
TargetAllocation(weight, target) == RMul(RDiv(weight, Rat(100)), target)

\* target_btc_usd_int = int(target_btc_usd), target_alt_usd_int likewise:
\* the two figures of the Target Allocation Summary
SummaryMetrics(btc, alt) == [btc |-> Trunc(btc), alt |-> Trunc(alt)]

\* the rows of display_df: Basket Rank 1..N after reset_index, the symbol in
\* upper case, the overall rank and the target as str(int(float(x)))
DisplayRows(basket, w, t) ==
    [i \in 1..Len(basket) |->
        [basket_rank |-> i,
         symbol |-> Upper(basket[i].symbol),
         name |-> basket[i].name,
         overall_rank |-> basket[i].market_cap_rank,
         weight |-> w[i],
         target |-> Trunc(t[i])]]

----------------------------------------------------------------------------
(* The allocation calculation of app.py: inputs and steps.                 *)

Coin(id, symbol, name, mcap, rank, price) ==
    [k \in SeqRange(required_keys) |->
        CASE k = "id" -> Str(id)
          [] k = "symbol" -> Str(symbol)
          [] k = "name" -> Str(name)
          [] k = "market_cap" -> mcap
          [] k = "market_cap_rank" -> rank
          [] OTHER -> price]

\* Records fetch_market_data may return: six non-null fields each.  Sol has
\* the fractional rank 5/Resolution, bad a market cap that is no number.
CalcCoins ==
    { Coin("bitcoin", "BTC", "Bitcoin", Whole(9), Whole(1), Whole(60)),
      Coin("ethereum", "eth", "Ethereum", Whole(3), Whole(2), Whole(3)),
      Coin("solana", "Sol", "Solana", Whole(1), Num(5), Whole(1)),
      Coin("tether", "usdt", "Tether", Whole(1), Whole(3), Whole(1)),
      Coin("zero", "zro", "Zero", Whole(0), Whole(4), Whole(1)),
      Coin("negative", "neg", "Negative", Whole(-1), Whole(5), Whole(1)),
      Coin("bad", "bad", "Bad", Str("n/a"), Whole(6), Whole(1)) }

\* Contents of the exclusion text area, as the pieces between its commas
ExcludedInputs ==
    { <<"">>,
      <<" USDT ", " ">>,
      <<"eth", "Sol", "">> }

\* <<total_portfolio_usd, btc_target_weight_percent, alt_target_weight_percent>>
WeightInputs == { <<100000, 150, 25>>, <<0, 0, 300>> }

InitCalc ==
    /\ variant = "app"
    /\ pages = MaxPages
    /\ retries = MaxRetries
    /\ pc = "calculating"
    /\ page = 1
    /\ attempt = 0
    /\ all_coins = <<>>
    /\ reqLog = <<>>
    /\ processed_coins = <<>>
    /\ skipped_coins_log = <<>>
    /\ fileWritten = FALSE
    /\ messages = <<>>
    /\ cpc = "start"
    /\ market_data \in UNION {[1..n -> CalcCoins] : n \in 1..MaxRows}
    /\ result = ListResult(market_data)
    /\ excluded_tokens_str \in ExcludedInputs
    /\ top_n_altcoins \in 0..MaxTopN
    /\ \E w \in WeightInputs :
        /\ total_portfolio_usd = w[1]
        /\ btc_target_weight_percent = w[2]
        /\ alt_target_weight_percent = w[3]
    /\ df = <<>>
    /\ excluded_tokens = {}
    /\ df_filtered = <<>>
    /\ altcoin_basket = <<>>
    /\ target_btc_usd = Rat(0)
    /\ target_altcoin_basket_usd = Rat(0)
    /\ total_altcoin_basket_market_cap = 0
    /\ weights = <<>>
    /\ targets = <<>>
    /\ display_df = <<>>
    /\ summary = <<>>

\* lines 178-196: the table is built, cleaned and sorted by rank
CleanAndSort ==
    /\ cpc = "start"
    /\ df' \in SortValues(Clean(market_data))
    /\ messages' = IF Len(market_data) > Len(Clean(market_data))
                   THEN messages \o <<"caption_removed_rows">>
                   ELSE messages
    /\ cpc' = "sorted"
    /\ UNCHANGED <<fetchVars, market_data, excluded_tokens_str, top_n_altcoins,
                   total_portfolio_usd, btc_target_weight_percent,
                   alt_target_weight_percent, excluded_tokens, df_filtered,
                   altcoin_basket, target_btc_usd, target_altcoin_basket_usd,
                   total_altcoin_basket_market_cap, weights, targets, display_df,
                   summary>>

\* lines 202-228: the exclusion set is parsed, the table filtered and its
\* first N rows taken; an empty table at either point ends the calculation
\* with a warning.
FilterAndSelect ==
    /\ cpc = "sorted"
    /\ excluded_tokens' = ParseExcluded(excluded_tokens_str)
    /\ df_filtered' = FilterExcluded(df, excluded_tokens')
    /\ IF df_filtered' = <<>>
       THEN /\ messages' = messages \o <<"warn_no_altcoins_remaining">>
            /\ cpc' = "no_candidates"
            /\ UNCHANGED altcoin_basket
       ELSE /\ altcoin_basket' = HeadRows(df_filtered', top_n_altcoins)
            /\ IF altcoin_basket' = <<>>
               THEN /\ messages' = messages \o <<"warn_could_not_select">>
                    /\ cpc' = "no_candidates"
               ELSE /\ cpc' = "selected"
                    /\ UNCHANGED messages
    /\ UNCHANGED <<fetchVars, market_data, excluded_tokens_str, top_n_altcoins,
                   total_portfolio_usd, btc_target_weight_percent,
                   alt_target_weight_percent, df, target_btc_usd,
                   target_altcoin_basket_usd, total_altcoin_basket_market_cap,
                   weights, targets, display_df, summary>>

\* lines 229-243 and 399-404: the two scalar targets, the basket total and,
\* when it is positive, the weight and target of every row; else a warning.
Allocate ==
    /\ cpc = "selected"
    /\ target_btc_usd' = TargetUsd(total_portfolio_usd, btc_target_weight_percent)
    /\ target_altcoin_basket_usd' =
            TargetUsd(total_portfolio_usd, alt_target_weight_percent)
    /\ total_altcoin_basket_market_cap' = SumMarketCap(altcoin_basket)
    /\ IF PositiveTotal(total_altcoin_basket_market_cap')
       THEN /\ weights' = [i \in 1..Len(altcoin_basket) |->
                    WeightPct(altcoin_basket[i], total_altcoin_basket_market_cap')]
            /\ targets' = [i \in 1..Len(altcoin_basket) |->
                    TargetAllocation(weights'[i], target_altcoin_basket_usd')]
            /\ cpc' = "weighted"
            /\ UNCHANGED messages
       ELSE /\ messages' = messages \o <<"warn_zero_market_cap">>
            /\ cpc' = "zero_market_cap"
            /\ UNCHANGED <<weights, targets>>
    /\ UNCHANGED <<fetchVars, market_data, excluded_tokens_str, top_n_altcoins,
                   total_portfolio_usd, btc_target_weight_percent,
                   alt_target_weight_percent, df, excluded_tokens, df_filtered,
                   altcoin_basket, display_df, summary>>

\* lines 247-397: the final table with its Basket Rank, and the results shown
Display ==
    /\ cpc = "weighted"
    /\ display_df' = DisplayRows(altcoin_basket, weights, targets)
    /\ summary' = SummaryMetrics(target_btc_usd, target_altcoin_basket_usd)
    /\ messages' = messages \o <<"success_complete">>
    /\ cpc' = "done"
    /\ UNCHANGED <<fetchVars, market_data, excluded_tokens_str, top_n_altcoins,
                   total_portfolio_usd, btc_target_weight_percent,
                   alt_target_weight_percent, df, excluded_tokens, df_filtered,
                   altcoin_basket, target_btc_usd, target_altcoin_basket_usd,
                   total_altcoin_basket_market_cap, weights, targets>>

NextCalc ==
    \/ CleanAndSort
    \/ FilterAndSelect
    \/ Allocate
    \/ Display

SpecCalc == InitCalc /\ [][NextCalc]_vars

----------------------------------------------------------------------------
(* Reading the request log.                                                *)

ReqsOn(p) == Cardinality({i \in DOMAIN reqLog : reqLog[i].page = p})

FailsOn(p) ==
    Cardinality({i \in DOMAIN reqLog :
                    reqLog[i].page = p /\ reqLog[i].outcome = "fail"})

\* failed requests for the page of request i issued before request i
FailsBefore(i) ==
    Cardinality({j \in 1..(i - 1) :
                    reqLog[j].page = reqLog[i].page /\ reqLog[j].outcome = "fail"})

RECURSIVE RecordsBefore(_)
\* number of records the responses before request i carried
RecordsBefore(i) ==
    IF i <= 1 THEN 0 ELSE RecordsBefore(i - 1) + Len(reqLog[i - 1].data)

RECURSIVE CollectedBefore(_)
\* the records the responses before request i carried, in order
CollectedBefore(i) ==
    IF i <= 1 THEN <<>> ELSE CollectedBefore(i - 1) \o reqLog[i - 1].data

LastReq == reqLog[Len(reqLog)]

\* the last request was the failure that used up the retries of its page
Exhausted ==
    /\ reqLog # <<>>
    /\ LastReq.outcome = "fail"
    /\ FailsOn(LastReq.page) >= retries

FetchEnded == pc \notin {"fetching", "after_loop"}

AllSixPresent(coin) ==
    \A key \in SeqRange(required_keys) : coin[key].tag \notin {"absent", "null"}

----------------------------------------------------------------------------
(* C1: once a page p returns a successful empty array, no request is       *)
(* issued for a page greater than p, the records collected before it are   *)
(* kept, and the empty page raises no error.                               *)
C1_EmptyPageStopsPagination ==
    \A i \in DOMAIN reqLog :
        reqLog[i].outcome = "empty" =>
            /\ \A j \in DOMAIN reqLog : j > i => reqLog[j].page <= reqLog[i].page
            /\ Len(all_coins) >= RecordsBefore(i)
            /\ SubSeq(all_coins, 1, RecordsBefore(i)) = CollectedBefore(i)
            /\ (i = Len(reqLog) => result.kind # "raise")

(* C2: when every request for a page fails, exactly `retries` requests are *)
(* issued for it, then the fetch fails (app.py None, fetch_coingecko.py    *)
(* raises) and no further request is issued.                               *)
C2_ExhaustedRetries ==
    \A p \in 1..pages :
        (ReqsOn(p) > 0 /\ FailsOn(p) = ReqsOn(p)) =>
            IF pc = "fetching" /\ page = p
            THEN ReqsOn(p) < retries
            ELSE /\ ReqsOn(p) = retries
                 /\ LastReq.page = p
                 /\ FetchEnded
                 /\ result.kind = IF variant = "app" THEN "none" ELSE "raise"

C2_Witness ==
    /\ retries >= 2
    /\ page = 2
    /\ FailsOn(2) = retries
    /\ FetchEnded

(* C3: when the first retries-1 requests for a page fail and the next one  *)
(* succeeds with a non-empty array, the fetch does not fail on that page   *)
(* and the response's records are all collected, in response order.        *)
C3_SuccessAfterRetries ==
    \A i \in DOMAIN reqLog :
        (reqLog[i].outcome = "data" /\ FailsBefore(i) = retries - 1) =>
            /\ Len(all_coins) >= RecordsBefore(i) + Len(reqLog[i].data)
            /\ \A k \in 1..Len(reqLog[i].data) :
                  all_coins[RecordsBefore(i) + k] = reqLog[i].data[k]
            /\ ~(Exhausted /\ LastReq.page = reqLog[i].page)
            /\ ReqsOn(reqLog[i].page) = retries

C3_Witness ==
    \E i \in DOMAIN reqLog :
        /\ reqLog[i].outcome = "data"
        /\ Len(reqLog[i].data) >= 2
        /\ reqLog[i].page >= 2
        /\ RecordsBefore(i) > 0
        /\ retries >= 2
        /\ FailsBefore(i) = retries - 1

(* C4: when a page exhausts its retries the whole fetch fails and the      *)
(* caller receives no record, not even those of the pages fetched before:  *)
(* app.py returns None, fetch_coingecko.py raises and main writes no file. *)
C4_NoPartialResult ==
    Exhausted =>
        /\ FetchEnded
        /\ result.coins = <<>>
        /\ variant = "app" => result.kind = "none" /\ pc # "calculating"
        /\ variant = "cg" => result.kind = "raise" /\ ~fileWritten
                                /\ pc \in {"raised", "main_aborted"}

C4_Witness ==
    /\ Exhausted
    /\ Truthy(all_coins)
    /\ pc \in {"fetch_failed", "main_aborted"}

(* C5: every record fetch_market_data returns (app.py and                  *)
(* fetch_coingecko.py) has the six fields present and non-null; a raw      *)
(* record with a null or absent market_cap_rank is never returned.         *)
C5_ReturnedRecordsComplete ==
    result.kind = "list" =>
        \A i \in DOMAIN result.coins : AllSixPresent(result.coins[i])

(* C6: in app.py the emitted records plus the skip entries number the raw  *)
(* records: each raw record is emitted once or skipped once.               *)
C6_EmittedPlusSkipped ==
    (variant = "app" /\ result.kind = "list") =>
        /\ Len(processed_coins) + Len(skipped_coins_log) = Len(all_coins)
        /\ Len(processed_coins)
             = Cardinality({i \in DOMAIN all_coins : AllSixPresent(all_coins[i])})

C6_Witness ==
    /\ variant = "app"
    /\ result.kind = "list"
    /\ Len(processed_coins) >= 2
    /\ \E i \in DOMAIN skipped_coins_log : skipped_coins_log[i].reason = "rank"
    /\ \E i \in DOMAIN skipped_coins_log : skipped_coins_log[i].reason = "fields"

(* C7: an empty first page is requested exactly once and hands the caller  *)
(* an outcome that differs from the outcome of exhausted retries.          *)
C7_EmptyFirstPageDistinct ==
    (FetchEnded /\ reqLog # <<>> /\ reqLog[1].outcome = "empty") =>
        /\ ReqsOn(1) = 1
        /\ result.kind # (IF variant = "app" THEN "none" ELSE "raise")

----------------------------------------------------------------------------
(* Claims about the allocation calculation, checked under SpecCalc.        *)

Min(a, b) == IF a < b THEN a ELSE b

\* rows of df whose lower-cased symbol is not excluded
Remaining == {i \in DOMAIN df : Lower(df[i].symbol) \notin excluded_tokens}

Selected == cpc \notin {"idle", "start", "sorted"}

(* C8: whenever the calculation has a non-empty basket of positive total   *)
(* market cap, every row's weight is 100 * market_cap / total and the      *)
(* weights sum to 100 (exact arithmetic).                                  *)
C8_WeightsSumTo100 ==
    (/\ cpc \notin {"idle", "start", "sorted", "selected"}
     /\ altcoin_basket # <<>>
     /\ SumMarketCap(altcoin_basket) > 0) =>
        /\ cpc \in {"weighted", "done"}
        /\ Len(weights) = Len(altcoin_basket)
        /\ \A i \in DOMAIN weights :
              REq(weights[i], <<100 * altcoin_basket[i].market_cap,
                                SumMarketCap(altcoin_basket)>>)
        /\ REq(RSum(weights), Rat(100))

C8_Witness ==
    /\ cpc = "done"
    /\ Len(weights) >= 2
    /\ \E i, j \in DOMAIN weights : ~REq(weights[i], weights[j])
    /\ Len(df_filtered) > Len(altcoin_basket)

(* C9: no record whose lower-cased symbol is in the exclusion set (which   *)
(* holds 'btc') is in the basket, and the basket has min(top_n, records    *)
(* remaining after exclusion) rows: an excluded record is backfilled by    *)
(* the next-ranked one.                                                    *)
C9_ExclusionAndBackfill ==
    Selected =>
        /\ "btc" \in excluded_tokens
        /\ \A i \in DOMAIN altcoin_basket :
              Lower(altcoin_basket[i].symbol) \notin excluded_tokens
        /\ Len(altcoin_basket) = Min(top_n_altcoins, Cardinality(Remaining))
        /\ \A i \in DOMAIN altcoin_basket :
              \E j \in Remaining : df[j] = altcoin_basket[i]
        /\ \A j \in Remaining :
              (\A i \in DOMAIN altcoin_basket : altcoin_basket[i] # df[j]) =>
                 \A i \in DOMAIN altcoin_basket :
                    altcoin_basket[i].market_cap_rank <= df[j].market_cap_rank

C9_Witness ==
    /\ cpc = "selected"
    /\ top_n_altcoins >= 2
    /\ Len(altcoin_basket) = top_n_altcoins
    /\ \E i \in 1..top_n_altcoins :
          /\ i <= Len(df)
          /\ Lower(df[i].symbol) \in excluded_tokens
          /\ df[i].symbol # Lower(df[i].symbol)
    /\ \E i \in DOMAIN df :
          Lower(df[i].symbol) \in excluded_tokens \ {"btc"}

(* C10: with top_n = 0, or with no record left by the exclusion filter,    *)
(* the calculation ends in the no-candidates outcome: a warning, no        *)
(* weight, no per-coin target, no allocation row, no failure.              *)
C10_NoCandidates ==
    (Selected /\ (top_n_altcoins = 0 \/ Remaining = {})) =>
        /\ cpc = "no_candidates"
        /\ messages # <<>>
        /\ messages[Len(messages)]
             \in {"warn_no_altcoins_remaining", "warn_could_not_select"}
        /\ weights = <<>>
        /\ targets = <<>>
        /\ display_df = <<>>

C10_Witness ==
    /\ cpc = "no_candidates"
    /\ top_n_altcoins >= 1
    /\ df # <<>>
    /\ Remaining = {}

C11_ZeroTotalReached ==
    /\ cpc = "zero_market_cap"
    /\ total_portfolio_usd = 100000
    /\ target_altcoin_basket_usd = <<25000, 1>>

(* C12: when the market caps of the truncated basket sum to zero or less,  *)
(* the calculation ends in the zero-market-cap outcome: a warning, no      *)
(* division by the total, no weight and no per-coin target allocation.     *)
C12_ZeroMarketCap ==
    (/\ cpc \notin {"idle", "start", "sorted", "selected"}
     /\ altcoin_basket # <<>>
     /\ SumMarketCap(altcoin_basket) <= 0) =>
        /\ cpc = "zero_market_cap"
        /\ messages # <<>>
        /\ messages[Len(messages)] = "warn_zero_market_cap"
        /\ weights = <<>>
        /\ targets = <<>>
        /\ display_df = <<>>
        /\ summary = <<>>

C12_Witness ==
    /\ cpc = "zero_market_cap"
    /\ Len(altcoin_basket) >= 2
    /\ \E i \in DOMAIN altcoin_basket : altcoin_basket[i].market_cap > 0
    /\ \E i \in DOMAIN altcoin_basket : altcoin_basket[i].market_cap < 0

\* a basket whose market caps sum to less than zero
C12_NegativeTotalReached ==
    /\ cpc = "zero_market_cap"
    /\ total_altcoin_basket_market_cap < 0

\* row a comes before row b: lower rank, or equal rank and earlier in the input
Precedes(a, b) ==
    \/ a.market_cap_rank < b.market_cap_rank
    \/ a.market_cap_rank = b.market_cap_rank /\ a.index < b.index

\* the basket holds min(top_n, remaining) non-excluded rows of lowest rank, in
\* ascending rank
BasketByRank ==
    /\ Len(altcoin_basket) = Min(top_n_altcoins, Cardinality(Remaining))
    /\ \A i \in DOMAIN altcoin_basket :
          \E j \in Remaining : df[j] = altcoin_basket[i]
    /\ \A i, j \in DOMAIN altcoin_basket :
          i < j => altcoin_basket[i].market_cap_rank
                      <= altcoin_basket[j].market_cap_rank
    /\ \A j \in Remaining :
          (\A i \in DOMAIN altcoin_basket : altcoin_basket[i] # df[j]) =>
             \A i \in DOMAIN altcoin_basket :
                altcoin_basket[i].market_cap_rank <= df[j].market_cap_rank

\* rows of equal rank stand in their input order, in the basket and at its cut
TiesInInputOrder ==
    /\ \A i, j \in DOMAIN altcoin_basket :
          i < j => Precedes(altcoin_basket[i], altcoin_basket[j])
    /\ \A j \in Remaining :
          (\A i \in DOMAIN altcoin_basket : altcoin_basket[i] # df[j]) =>
             \A i \in DOMAIN altcoin_basket : Precedes(altcoin_basket[i], df[j])

\* the Basket Rank column numbers the basket rows 1..N in their order
BasketRankNumbering ==
    cpc = "done" =>
        /\ Len(display_df) = Len(altcoin_basket)
        /\ \A i \in DOMAIN display_df :
              /\ display_df[i].basket_rank = i
              /\ display_df[i].overall_rank = altcoin_basket[i].market_cap_rank
              /\ display_df[i].name = altcoin_basket[i].name

(* C13: the basket rows are the top_n non-excluded records of lowest       *)
(* market_cap_rank, in ascending rank with records of equal rank in their  *)
(* original input order, and Basket Rank numbers them 1..N in that order.  *)
C13_BasketOrder ==
    (Selected /\ top_n_altcoins >= 1) =>
        /\ BasketByRank
        /\ TiesInInputOrder
        /\ BasketRankNumbering

(* The part of C13 that does not rest on the order of equal ranks.         *)
C13_RankOrderAndNumbering ==
    (Selected /\ top_n_altcoins >= 1) => BasketByRank /\ BasketRankNumbering

----------------------------------------------------------------------------
(* Claims about the order and number of requests, checked under Spec.      *)

CallerEnded == pc \in {"calculating", "fetch_failed", "main_done", "main_aborted"}

(* C14: requests are issued one after the other in non-decreasing page     *)
(* order from page 1, at most `retries` for a page and so at most pages *  *)
(* retries in all, none for a page that has answered successfully; the     *)
(* fetch goes on until it has ended, so it terminates.                     *)
C14_SequentialBoundedRequests ==
    /\ reqLog # <<>> => reqLog[1].page = 1
    /\ \A i \in DOMAIN reqLog :
          /\ reqLog[i].page \in 1..pages
          /\ i > 1 => reqLog[i].page \in
                         {reqLog[i - 1].page, reqLog[i - 1].page + 1}
          /\ i > 1 /\ reqLog[i - 1].outcome = "fail"
                => reqLog[i].page = reqLog[i - 1].page
    /\ \A p \in 1..pages : ReqsOn(p) <= retries
    /\ Len(reqLog) <= pages * retries
    /\ \A i, j \in DOMAIN reqLog :
          (i < j /\ reqLog[i].outcome # "fail")
              => reqLog[j].page > reqLog[i].page
    /\ pc = "fetching" => page \in 1..pages /\ attempt < retries
    /\ pc = "fetching" => ENABLED RequestFails
    /\ CallerEnded \/ pc \in {"fetching", "after_loop", "returned", "raised"}

\* every page used all its attempts: the largest number of requests
C14_Witness ==
    /\ pages >= 2
    /\ retries >= 2
    /\ Len(reqLog) = pages * retries
    /\ reqLog[retries].outcome = "data"
    /\ CallerEnded

====
